---- MODULE Spec2Model ----
\* A model of the geoip crate (src/src/geoip/lib.rs) and of the native
\* entry points it binds (src/geoip-sys/src/lib.rs).
\*
\* Text is modelled as sequences of byte values (0..255), so that UTF-8
\* validation, prefix tests, splitting and number parsing are computed the
\* way the code computes them.  Native heap objects (database resources,
\* records) are entries of sequences; a pointer is an index and 0 is the null
\* pointer.  Native strings are followed through the calls made on them.
EXTENDS Integers, Sequences, FiniteSets, TLC

\* ---------------------------------------------------------------- bounds

NThreads == 2
MaxDbs == 2
MaxRecs == 2
MaxDescLen == 3

Threads == 1..NThreads

\* ------------------------------------------------------- option values

None == [tag |-> "None"]
Some(v) == [tag |-> "Some", val |-> v]
Panic == [tag |-> "Panic"]

\* A C string pointer held in a native structure: null, or the bytes up to
\* the terminator.
NULL == [null |-> TRUE]
CStr(bytes) == [null |-> FALSE, bytes |-> bytes]

\* ------------------------------------------------------------ bit helpers

RECURSIVE BitOr(_, _)
BitOr(a, b) ==
  IF a = 0 THEN b
  ELSE IF b = 0 THEN a
  ELSE (IF (a % 2 = 1) \/ (b % 2 = 1) THEN 1 ELSE 0) + 2 * BitOr(a \div 2, b \div 2)

\* -------------------------------------------------------------------- u32

\* A u32 is kept as two 16-bit limbs, value = hi * 2^16 + lo, so that the
\* whole 32-bit range and its overflow are computed exactly.
W16 == 65536

U32(hi, lo) == [hi |-> hi, lo |-> lo]

\* `n as u32` for a c_int n (two's complement wrap of negative values).
as_u32(n) ==
  IF n >= 0 THEN U32(n \div W16, n % W16)
  ELSE LET m == (n + 2147483647) + 1
       IN U32(32768 + (m \div W16), m % W16)

\* ------------------------------------------------------------------ UTF-8

utf8_char_width(b) ==
  IF b < 128 THEN 1
  ELSE IF b >= 194 /\ b <= 223 THEN 2
  ELSE IF b >= 224 /\ b <= 239 THEN 3
  ELSE IF b >= 240 /\ b <= 244 THEN 4
  ELSE 0

safe_get(s, i) == IF i <= Len(s) THEN s[i] ELSE 0

IsCont(b) == b >= 128 /\ b <= 191

\* One scalar value starting at index i: ok says whether a well-formed
\* encoding starts there, next is the index after the bytes inspected and
\* accepted (for an ill-formed one: after the maximal ill-formed prefix).
Utf8Step(s, i) ==
  LET b == s[i]
      w == utf8_char_width(b)
      b1 == safe_get(s, i + 1)
      b2 == safe_get(s, i + 2)
      b3 == safe_get(s, i + 3)
      second3 == \/ (b = 224 /\ b1 >= 160 /\ b1 <= 191)
                 \/ (b >= 225 /\ b <= 236 /\ IsCont(b1))
                 \/ (b = 237 /\ b1 >= 128 /\ b1 <= 159)
                 \/ (b >= 238 /\ b <= 239 /\ IsCont(b1))
      second4 == \/ (b = 240 /\ b1 >= 144 /\ b1 <= 191)
                 \/ (b >= 241 /\ b <= 243 /\ IsCont(b1))
                 \/ (b = 244 /\ b1 >= 128 /\ b1 <= 143)
  IN CASE w = 1 -> [ok |-> TRUE, next |-> i + 1]
       [] w = 2 -> IF IsCont(b1) THEN [ok |-> TRUE, next |-> i + 2]
                   ELSE [ok |-> FALSE, next |-> i + 1]
       [] w = 3 -> IF ~second3 THEN [ok |-> FALSE, next |-> i + 1]
                   ELSE IF ~IsCont(b2) THEN [ok |-> FALSE, next |-> i + 2]
                   ELSE [ok |-> TRUE, next |-> i + 3]
       [] w = 4 -> IF ~second4 THEN [ok |-> FALSE, next |-> i + 1]
                   ELSE IF ~IsCont(b2) THEN [ok |-> FALSE, next |-> i + 2]
                   ELSE IF ~IsCont(b3) THEN [ok |-> FALSE, next |-> i + 3]
                   ELSE [ok |-> TRUE, next |-> i + 4]
       [] OTHER -> [ok |-> FALSE, next |-> i + 1]

RECURSIVE Utf8ValidFrom(_, _)
Utf8ValidFrom(s, i) ==
  IF i > Len(s) THEN TRUE
  ELSE LET st == Utf8Step(s, i)
       IN st.ok /\ Utf8ValidFrom(s, st.next)

\* String::from_utf8(..).ok() / CStr::to_str(): the bytes, if well formed.
from_utf8(bytes) == IF Utf8ValidFrom(bytes, 1) THEN Some(bytes) ELSE None

ReplacementChar == <<239, 191, 189>>

RECURSIVE LossyFrom(_, _)
LossyFrom(s, i) ==
  IF i > Len(s) THEN <<>>
  ELSE LET st == Utf8Step(s, i)
       IN IF st.ok THEN SubSeq(s, i, st.next - 1) \o LossyFrom(s, st.next)
          ELSE ReplacementChar \o LossyFrom(s, st.next)

\* Path::display(): the path's bytes, ill-formed parts replaced by U+FFFD.
path_display(path) == LossyFrom(path, 1)

\* The index of the first ill-formed sequence of s at or after i, 0 if the
\* rest is well formed.
RECURSIVE FirstInvalid(_, _)
FirstInvalid(s, i) ==
  IF i > Len(s) THEN 0
  ELSE LET st == Utf8Step(s, i)
       IN IF st.ok THEN FirstInvalid(s, st.next) ELSE i

\* str::Utf8Error for bytes that are not well formed: the length of the
\* valid prefix, and the length of the ill-formed sequence, or None where
\* the input ends in the middle of a sequence.
Utf8Error(s) ==
  LET i == FirstInvalid(s, 1)
      st == Utf8Step(s, i)
  IN [valid_up_to |-> i - 1,
      error_len |-> IF utf8_char_width(s[i]) = 0 THEN Some(1)
                    ELSE IF st.next > Len(s) THEN None
                    ELSE Some(st.next - i)]

\* CStr::to_str(): the bytes as text, or the Utf8Error.
to_str(bytes) ==
  IF FirstInvalid(bytes, 1) = 0
  THEN [tag |-> "Ok", val |-> bytes]
  ELSE [tag |-> "Err", err |-> Utf8Error(bytes)]

\* ------------------------------------------------- Optional-Field Decoder

maybe_string(c_str) ==
  IF c_str.null THEN None ELSE from_utf8(c_str.bytes)

\* maybe_code without the test for zero.
maybe_code_always_some(code) == Some(code)

maybe_code(code) == IF code = U32(0, 0) THEN None ELSE Some(code)

\* -------------------------------------------------------- text operations

starts_with_first_byte(s, prefix) ==
  Len(s) >= 1 /\ Len(prefix) >= 1 /\ s[1] = prefix[1]

starts_with(s, prefix) ==
  Len(s) >= Len(prefix) /\ SubSeq(s, 1, Len(prefix)) = prefix

\* Index of the first occurrence of byte c in s, 0 if there is none.
FindByte(s, c) ==
  IF \E i \in 1..Len(s) : s[i] = c
  THEN CHOOSE i \in 1..Len(s) : s[i] = c /\ \A j \in 1..(i - 1) : s[j] # c
  ELSE 0

\* A split that does not stop after the second item: the second item ends
\* at the next space.
splitn2_every_space(s) ==
  LET k == FindByte(s, 32)
      rest == SubSeq(s, k + 1, Len(s))
      k2 == FindByte(rest, 32)
  IN IF k = 0 THEN <<s>>
     ELSE <<SubSeq(s, 1, k - 1), IF k2 = 0 THEN rest ELSE SubSeq(rest, 1, k2 - 1)>>

\* str::splitn(2, ' '): the items the iterator yields, in order.
splitn2(s) ==
  LET k == FindByte(s, 32)
  IN IF k = 0 THEN <<s>>
     ELSE <<SubSeq(s, 1, k - 1), SubSeq(s, k + 1, Len(s))>>

\* The digit loop of u32::from_str: acc * 10 + digit, checked for overflow.
RECURSIVE ParseDigits(_, _, _)
ParseDigits(s, i, acc) ==
  IF i > Len(s) THEN [ok |-> TRUE, val |-> acc]
  ELSE IF s[i] < 48 \/ s[i] > 57 THEN [ok |-> FALSE]
  ELSE LET lo10 == acc.lo * 10 + (s[i] - 48)
           hi10 == acc.hi * 10 + (lo10 \div W16)
       IN IF hi10 >= W16 THEN [ok |-> FALSE]
          ELSE ParseDigits(s, i + 1, U32(hi10, lo10 % W16))

\* str::parse::<u32>(): decimal digits with an optional leading '+'.
parse_u32(s) ==
  IF Len(s) = 0 THEN [ok |-> FALSE]
  ELSE IF Len(s) = 1 /\ (s[1] = 43 \/ s[1] = 45) THEN [ok |-> FALSE]
  ELSE IF s[1] = 43 THEN ParseDigits(s, 2, U32(0, 0))
  ELSE ParseDigits(s, 1, U32(0, 0))

AS_PREFIX == <<65, 83>>
NONE_NAME == <<40, 110, 111, 110, 101, 41>>

ASInfo(asn, name, netmask) == [asn |-> asn, name |-> name, netmask |-> netmask]

\* GeoIp::as_info_by_ip after the native call: cres is the returned C string
\* pointer, netmask the value the call left in the lookup context.
as_info_decode(cres, netmask) ==
  IF cres.null THEN None
  ELSE LET d == maybe_string(cres)
       IN IF d.tag = "None" THEN None
          ELSE LET di == splitn2(d.val)
                   asn == di[1]
               IN IF ~starts_with(asn, AS_PREFIX) THEN None
                  ELSE LET num == parse_u32(splitn2(SubSeq(asn, 3, Len(asn)))[1])
                       IN IF ~num.ok THEN Panic
                          ELSE Some(ASInfo(num.val,
                                           IF Len(di) >= 2 THEN di[2] ELSE NONE_NAME,
                                           as_u32(netmask)))

\* ---------------------------------------------------------- enumerations

\* Charset::Utf8 and the two DBType editions the model opens by type.
Utf8 == 1
CityEditionRev1 == 2
ASNUMEdition == 9

DBTypes == {CityEditionRev1, ASNUMEdition}

\* ------------------------------------------------------- Address Encoder

V4(octets) == [fam |-> "V4", octets |-> octets]
V6(segments) == [fam |-> "V6", segments |-> segments]

\* CNetworkIp::new packing the four octets with the last one highest.
CNetworkIp_new_host_order(ip) ==
  IF ip.fam = "V4"
  THEN LET b == ip.octets
       IN [fam |-> "V4",
           num |-> U32(BitOr(b[4] * 256, b[3]), BitOr(b[2] * 256, b[1]))]
  ELSE LET b == ip.segments
       IN [fam |-> "V6",
           bytes |-> [i \in 1..16 |->
                        IF i % 2 = 1 THEN (b[(i + 1) \div 2] \div 256) % 256
                        ELSE b[i \div 2] % 256]]

\* CNetworkIp::new writing the low byte of each group first.
CNetworkIp_new_low_byte_first(ip) ==
  IF ip.fam = "V4"
  THEN LET b == ip.octets
       IN [fam |-> "V4",
           num |-> U32(BitOr(b[1] * 256, b[2]), BitOr(b[3] * 256, b[4]))]
  ELSE LET b == ip.segments
       IN [fam |-> "V6",
           bytes |-> [i \in 1..16 |->
                        IF i % 2 = 1 THEN b[(i + 1) \div 2] % 256
                        ELSE (b[i \div 2] \div 256) % 256]]

\* CNetworkIp::new.  The V4 value (b0 << 24) | (b1 << 16) | (b2 << 8) | b3 is
\* kept in limbs: (b0 << 8) | b1 is its high half, (b2 << 8) | b3 its low half.
CNetworkIp_new(ip) ==
  IF ip.fam = "V4"
  THEN LET b == ip.octets
       IN [fam |-> "V4",
           num |-> U32(BitOr(b[1] * 256, b[2]), BitOr(b[3] * 256, b[4]))]
  ELSE LET b == ip.segments
       IN [fam |-> "V6",
           bytes |-> [i \in 1..16 |->
                        IF i % 2 = 1 THEN (b[(i + 1) \div 2] \div 256) % 256
                        ELSE b[i \div 2] % 256]]

\* ------------------------------------------------ native database content
\* What the native library answers is the environment of the wrapper; the
\* model fixes a small database so that every null / non-null combination
\* occurs.

Rows == {"mv", "ldn", "mv6"}

\* GeoIpRecord, by row.  The record of 8.8.8.8 carries what the tests read
\* from it: city "Mountain View", dma_code 807, area_code 650; the record
\* of 95.144.124.132 has a city and neither code.
RowData(row) ==
  CASE row = "mv" ->
         [country_code |-> CStr(<<85, 83>>),
          country_code3 |-> CStr(<<85, 83, 65>>),
          country_name |-> CStr(<<85, 46, 83, 46>>),
          region |-> CStr(<<67, 65>>),
          city |-> CStr(<<77, 111, 117, 110, 116, 97, 105, 110, 32, 86, 105, 101, 119>>),
          postal_code |-> CStr(<<57, 52, 48, 52, 51>>),
          latitude |-> 37419, longitude |-> -122057,
          dma_code |-> 807, area_code |-> 650, charset |-> 1,
          continent_code |-> CStr(<<78, 65>>), netmask |-> 24]
    [] row = "ldn" ->
         [country_code |-> CStr(<<71, 66>>),
          country_code3 |-> CStr(<<71, 66, 82>>),
          country_name |-> CStr(<<85, 46, 75, 46>>),
          region |-> CStr(<<200>>),
          city |-> CStr(<<76, 100, 110>>),
          postal_code |-> NULL,
          latitude |-> 51500, longitude |-> -130,
          dma_code |-> 0, area_code |-> 0, charset |-> 1,
          continent_code |-> CStr(<<69, 85>>), netmask |-> 17]
    [] OTHER ->
         [country_code |-> CStr(<<85, 83>>),
          country_code3 |-> NULL,
          country_name |-> NULL,
          region |-> NULL,
          city |-> CStr(<<83, 97, 110, 32, 74, 111, 115, 195, 169>>),
          postal_code |-> NULL,
          latitude |-> 0, longitude |-> 0,
          dma_code |-> 0, area_code |-> 650, charset |-> 1,
          continent_code |-> CStr(<<78, 65>>), netmask |-> 48]

IP_GOOGLE == V4(<<8, 8, 8, 8>>)
IP_UK == V4(<<95, 144, 124, 132>>)
IP_PRIVATE == V4(<<10, 0, 0, 1>>)
IP6_GOOGLE == V6(<<8193, 18528, 18528, 0, 0, 0, 0, 34952>>)

IPs == {IP_GOOGLE, IP_UK, IP_PRIVATE, IP6_GOOGLE}

\* GeoIP_record_by_ipnum / GeoIP_record_by_ipnum_v6 on an intact database:
\* the row found for the encoded address, "none" for a null result.
GeoIP_record_by_ipnum(c) ==
  IF c.fam = "V4"
  THEN (IF c.num = U32(2056, 2056) THEN "mv"
        ELSE IF c.num = U32(24464, 31876) THEN "ldn"
        ELSE "none")
  ELSE (IF c.bytes = <<32, 1, 72, 96, 72, 96, 0, 0, 0, 0, 0, 0, 0, 0, 136, 136>>
        THEN "mv6" ELSE "none")

\* GeoIP_name_by_ipnum_gl / GeoIP_name_by_ipnum_v6_gl on an intact database:
\* the description string and the netmask written to the lookup context.
GeoIP_name_by_ipnum_gl(c) ==
  IF c.fam = "V4"
  THEN (IF c.num = U32(2056, 2056)
        THEN [name |-> CStr(<<65, 83, 49, 53, 49, 54, 57, 32, 71, 111, 111, 103,
                              108, 101, 32, 73, 110, 99, 46>>), netmask |-> 24]
        ELSE IF c.num = U32(24464, 31876)
        THEN [name |-> CStr(<<65, 83, 68, 65, 32, 83, 116, 111, 114, 101, 115>>),
              netmask |-> 17]
        ELSE [name |-> NULL, netmask |-> 0])
  ELSE (IF c.bytes = <<32, 1, 72, 96, 72, 96, 0, 0, 0, 0, 0, 0, 0, 0, 136, 136>>
        THEN [name |-> CStr(<<71, 111, 111, 103, 108, 101, 32, 73, 110, 99, 46>>),
              netmask |-> 48]
        ELSE [name |-> NULL, netmask |-> 0])

\* Host names given to city_info_by_name, and what may follow the name in
\* memory: the pointer handed to the native call is name.as_ptr(), with no
\* terminator of its own, so the native call reads on past the name.
Names == {<<97>>, <<98>>, <<99>>}
NameTails == {<<>>, <<120>>}

\* GeoIP_record_by_name / GeoIP_record_by_name_v6 on the C string read.
GeoIP_record_by_name(cstring) ==
  IF cstring = <<97>> \/ cstring = <<99>> THEN "mv" ELSE "none"

GeoIP_record_by_name_v6(cstring) ==
  IF cstring = <<98>> \/ cstring = <<99>> THEN "mv6" ELSE "none"

\* Paths given to open: one with an embedded terminator byte, one that is
\* not UTF-8, and "foobar.baz".
Paths == {<<102, 0, 102>>, <<102, 255>>,
          <<102, 111, 111, 98, 97, 114, 46, 98, 97, 122>>}

\* Editions GeoIP_open_type finds installed.
Installed == {CityEditionRev1}

\* CityInfo::from_geoiprecord
from_geoiprecord(res) ==
  [country_code |-> maybe_string(res.country_code),
   country_code3 |-> maybe_string(res.country_code3),
   country_name |-> maybe_string(res.country_name),
   region |-> maybe_string(res.region),
   city |-> maybe_string(res.city),
   postal_code |-> maybe_string(res.postal_code),
   latitude |-> res.latitude,
   longitude |-> res.longitude,
   dma_code |-> maybe_code(as_u32(res.dma_code)),
   area_code |-> maybe_code(as_u32(res.area_code)),
   continent_code |-> maybe_string(res.continent_code),
   netmask |-> as_u32(res.netmask)]


\* ------------------------------------------------------------ Error Model

Ok(v) == [tag |-> "Ok", val |-> v]
Err(e) == [tag |-> "Err", err |-> e]

\* ffi::NulError: the position of the first terminator byte, and the bytes.
NulError(pos, bytes) == [nul_position |-> pos, bytes |-> bytes]

OpenPathError_InvalidPath(e) == [kind |-> "InvalidPath", cause |-> e]
OpenPathError_OpenFailed_displayed(path) == [kind |-> "OpenFailed", path |-> path_display(path)]
OpenPathError_OpenFailed(path) == [kind |-> "OpenFailed", path |-> path]
OpenPathError_SetCharsetFailed(charset) == [kind |-> "SetCharsetFailed", charset |-> charset]

OpenTypeError_OpenFailed(db_type) == [kind |-> "OpenFailed", db_type |-> db_type]
OpenTypeError_SetCharsetFailed(charset) == [kind |-> "SetCharsetFailed", charset |-> charset]

RECURSIVE Decimal(_)
Decimal(n) == IF n < 10 THEN <<48 + n>> ELSE Decimal(n \div 10) \o <<48 + (n % 10)>>

\* {:?} of Charset
Debug_Charset(charset) == <<85, 116, 102, 56>>

\* impl fmt::Display for OpenPathError
Display_OpenPathError(e) ==
  CASE e.kind = "InvalidPath" ->
         <<71, 105, 118, 101, 110, 32, 112, 97, 116, 104, 32, 119, 97, 115, 32,
           105, 110, 118, 97, 108, 105, 100, 58, 32>>
         \o <<110, 117, 108, 32, 98, 121, 116, 101, 32, 102, 111, 117, 110, 100,
              32, 105, 110, 32, 112, 114, 111, 118, 105, 100, 101, 100, 32, 100,
              97, 116, 97, 32, 97, 116, 32, 112, 111, 115, 105, 116, 105, 111,
              110, 58, 32>>
         \o Decimal(e.cause.nul_position)
    [] e.kind = "OpenFailed" ->
         <<70, 97, 105, 108, 101, 100, 32, 116, 111, 32, 111, 112, 101, 110, 32,
           100, 97, 116, 97, 98, 97, 115, 101, 32, 102, 114, 111, 109, 32, 112,
           97, 116, 104, 32, 39>>
         \o path_display(e.path) \o <<39>>
    [] OTHER ->
         <<70, 97, 105, 108, 101, 100, 32, 116, 111, 32, 115, 101, 116, 32, 100,
           97, 116, 97, 98, 97, 115, 101, 32, 99, 104, 97, 114, 115, 101, 116, 32>>
         \o Debug_Charset(e.charset)

ReadInfoError_InfoFailed == [kind |-> "InfoFailed"]
\* impl From<Utf8Error> for ReadInfoError
ReadInfoError_InvalidData(err) == [kind |-> "InvalidData", err |-> err]

\* An encoding that accepts every byte string.
CString_new_unchecked(bytes) == Ok(bytes)

\* ffi::CString::new: the bytes, or a NulError at the first zero byte
\* (positions count from 0).
CString_new(bytes) ==
  LET k == FindByte(bytes, 0)
  IN IF k = 0 THEN Ok(bytes) ELSE Err(NulError(k - 1, bytes))

\* ------------------------------------------------------------------ state

VARIABLES
  pc,          \* per thread: where it is in the call it is running
  handle,      \* per thread: the GeoIp value it owns, if any
  loc,         \* per thread: the locals of the call it is running
  result,      \* the call that returned in the last step, if one did: its
               \* thread, argument, return value and native calls
  LOCK,        \* the process-wide mutex: 0, or the thread holding it
  nativeInit,  \* the static state GeoIP_open_type sets up on first use
  dbs,         \* native database resources, by address
  recs,        \* native records, by address
  ub,          \* misuses of the native layer that have happened
  asIn,        \* input of the description decoder
  asOut,       \* output of the description decoder
  fnIn,        \* input of the function applied on its own
  fnOut,       \* what that function returned
  prev         \* an earlier query and its return value, kept by the caller

vars == <<pc, handle, loc, result, LOCK, nativeInit, dbs, recs, ub, asIn, asOut, fnIn, fnOut, prev>>

NoHandle == [live |-> FALSE, db |-> 0]
\* struct GeoIp { db }
GeoIp(db) == [live |-> TRUE, db |-> db]

NoLoc == [op |-> "none"]
NoResult == [op |-> "none"]

FreeDb == [live |-> FALSE, owned |-> FALSE, charsets |-> 0, corrupt |-> FALSE]
FreeRec == [live |-> FALSE, row |-> "none"]

\* A native call as it is logged: the entry point, the native pointer it was
\* given (0 if it takes none) and the pointer or status it returned.
Call(f, ptr, ret) == [f |-> f, ptr |-> ptr, ret |-> ret]

Returned(t, op, arg, ret, calls) ==
  [t |-> t, op |-> op, arg |-> arg, ret |-> ret, calls |-> calls]

\* The native allocator: the lowest free address of a heap.
HasFree(heap) == \E i \in DOMAIN heap : ~heap[i].live
FreeSlot(heap) == CHOOSE i \in DOMAIN heap : ~heap[i].live /\ \A j \in 1..(i - 1) : heap[j].live
NumFree(heap) == Cardinality({i \in DOMAIN heap : ~heap[i].live})

\* Calls in flight that have yet to receive a native allocation.
DbsAwaited == Cardinality({t \in Threads : pc[t] \in {"ot_lock", "ot_native"}})

MainInit ==
  /\ pc = [t \in Threads |-> "idle"]
  /\ handle = [t \in Threads |-> NoHandle]
  /\ loc = [t \in Threads |-> NoLoc]
  /\ result = NoResult
  /\ LOCK = 0
  /\ nativeInit = "uninit"
  /\ dbs = [i \in 1..MaxDbs |-> FreeDb]
  /\ recs = [i \in 1..MaxRecs |-> FreeRec]
  /\ ub = {}
  /\ prev = NoResult

Pending == [tag |-> "Pending"]

NoInput == [f |-> "none"]

Init ==
  /\ MainInit
  /\ asIn = [cres |-> NULL, netmask |-> 0]
  /\ asOut = Pending
  /\ fnIn = NoInput
  /\ fnOut = Pending

MainVars == <<pc, handle, loc, result, LOCK, nativeInit, dbs, recs, ub, prev>>

\* ------------------------------------------------------------ GeoIp::open

\* GeoIP_set_charset on a resource: the statuses the native call may report.
CharsetStatuses == {0, 1}

\* A set-charset status that is taken for success whatever it is.
set_charset_unchecked(status) == FALSE

\* `GeoIP_set_charset(db, Charset::Utf8 as c_int) != 0`: the test that makes
\* open and open_type give up.
set_charset_failed(status) == status # 0

Open(t, path) ==
  /\ result = NoResult
  /\ pc[t] = "idle"
  /\ ~handle[t].live
  /\ LET cpath == CString_new(path)
     IN IF cpath.tag = "Err"
        THEN /\ result' =
                   Returned(t, "open", path, Err(OpenPathError_InvalidPath(cpath.err)), <<>>)
             /\ UNCHANGED <<handle, dbs>>
        ELSE \E db \in {0} \cup (IF NumFree(dbs) > DbsAwaited THEN {FreeSlot(dbs)} ELSE {}) :
               IF db = 0
               THEN /\ result' =
                          Returned(t, "open", path, Err(OpenPathError_OpenFailed(path)),
                                   <<Call("GeoIP_open", 0, 0)>>)
                    /\ UNCHANGED <<handle, dbs>>
               ELSE \E status \in CharsetStatuses :
                      IF set_charset_failed(status)
                      THEN /\ dbs' = [dbs EXCEPT ![db] =
                                 [live |-> TRUE, owned |-> FALSE, charsets |-> 1, corrupt |-> FALSE]]
                           /\ result' =
                                 Returned(t, "open", path, Err(OpenPathError_SetCharsetFailed(Utf8)),
                                          <<Call("GeoIP_open", 0, db),
                                            Call("GeoIP_set_charset", db, status)>>)
                           /\ UNCHANGED handle
                      ELSE /\ dbs' = [dbs EXCEPT ![db] =
                                 [live |-> TRUE, owned |-> TRUE, charsets |-> 1, corrupt |-> FALSE]]
                           /\ handle' = [handle EXCEPT ![t] = GeoIp(db)]
                           /\ result' =
                                 Returned(t, "open", path, Ok(GeoIp(db)),
                                          <<Call("GeoIP_open", 0, db),
                                            Call("GeoIP_set_charset", db, status)>>)
  /\ UNCHANGED <<pc, loc, LOCK, nativeInit, recs, ub, asIn, asOut, fnIn, fnOut, prev>>

\* ------------------------------------------------------- GeoIp::open_type

\* LOCK.lock() returns once no thread holds the mutex.
LockAvailable_always(t) == TRUE

LockAvailable(t) == LOCK = 0

\* The MutexGuard _lock goes out of scope at the end of the block that holds
\* the native open call: the value of LOCK afterwards.
MutexGuard_kept(t) == t

MutexGuard_drop(t) == 0

\* open_type is entered: the thread goes on to LOCK.lock().
OpenTypeCall(t, db_type) ==
  /\ result = NoResult
  /\ pc[t] = "idle"
  /\ ~handle[t].live
  /\ NumFree(dbs) > DbsAwaited
  /\ pc' = [pc EXCEPT ![t] = "ot_lock"]
  /\ loc' = [loc EXCEPT ![t] =
        [op |-> "open_type", arg |-> db_type, db |-> 0, first |-> FALSE,
         partial |-> FALSE, calls |-> <<>>]]
  /\ result' = NoResult
  /\ UNCHANGED <<handle, LOCK, nativeInit, dbs, recs, ub, asIn, asOut, fnIn, fnOut, prev>>

\* LOCK.lock() returns the guard and GeoIP_open_type is entered.  The first
\* call ever builds the native library's static file-name table; a call
\* that comes in while the table is being built reads it half built.
OpenTypeLock(t) ==
  /\ result = NoResult
  /\ pc[t] = "ot_lock"
  /\ LockAvailable(t)
  /\ LOCK' = t
  /\ pc' = [pc EXCEPT ![t] = "ot_native"]
  /\ nativeInit' = IF nativeInit = "uninit" THEN "busy" ELSE nativeInit
  /\ loc' = [loc EXCEPT ![t].first = (nativeInit = "uninit"),
                        ![t].partial = (nativeInit = "busy")]
  /\ result' = NoResult
  /\ UNCHANGED <<handle, dbs, recs, ub, asIn, asOut, fnIn, fnOut, prev>>

\* GeoIP_open_type returns, the guard goes out of scope at the end of the
\* block, and the result is tested for null.
OpenTypeNativeReturn(t) ==
  /\ result = NoResult
  /\ pc[t] = "ot_native"
  /\ nativeInit' = IF loc[t].first THEN "ready" ELSE nativeInit
  /\ LOCK' = MutexGuard_drop(t)
  /\ \E db \in (IF loc[t].partial THEN {0, FreeSlot(dbs)}
                ELSE IF loc[t].arg \in Installed THEN {FreeSlot(dbs)} ELSE {0}) :
       LET calls == Append(loc[t].calls, Call("GeoIP_open_type", 0, db))
       IN IF db = 0
          THEN /\ pc' = [pc EXCEPT ![t] = "idle"]
               /\ loc' = [loc EXCEPT ![t] = NoLoc]
               /\ result' =
                     Returned(t, "open_type", loc[t].arg,
                              Err(OpenTypeError_OpenFailed(loc[t].arg)), calls)
               /\ UNCHANGED dbs
          ELSE /\ pc' = [pc EXCEPT ![t] = "ot_charset"]
               /\ loc' = [loc EXCEPT ![t].db = db, ![t].calls = calls]
               /\ dbs' = [dbs EXCEPT ![db] =
                     [live |-> TRUE, owned |-> FALSE, charsets |-> 0,
                      corrupt |-> loc[t].partial]]
               /\ result' = NoResult
  /\ UNCHANGED <<handle, recs, ub, asIn, asOut, fnIn, fnOut, prev>>

\* GeoIP_set_charset(db, Utf8) and the return of open_type.
OpenTypeSetCharset(t) ==
  /\ result = NoResult
  /\ pc[t] = "ot_charset"
  /\ \E status \in CharsetStatuses :
       LET db == loc[t].db
           calls == Append(loc[t].calls, Call("GeoIP_set_charset", db, status))
       IN IF set_charset_failed(status)
          THEN /\ dbs' = [dbs EXCEPT ![db].charsets = @ + 1]
               /\ result' =
                     Returned(t, "open_type", loc[t].arg,
                              Err(OpenTypeError_SetCharsetFailed(Utf8)), calls)
               /\ UNCHANGED handle
          ELSE /\ dbs' = [dbs EXCEPT ![db].charsets = @ + 1, ![db].owned = TRUE]
               /\ handle' = [handle EXCEPT ![t] = GeoIp(db)]
               /\ result' =
                     Returned(t, "open_type", loc[t].arg, Ok(GeoIp(db)), calls)
  /\ pc' = [pc EXCEPT ![t] = "idle"]
  /\ loc' = [loc EXCEPT ![t] = NoLoc]
  /\ UNCHANGED <<LOCK, nativeInit, recs, ub, asIn, asOut, fnIn, fnOut, prev>>

\* ------------------------------------------------------ impl Drop for GeoIp

\* A drop that lets the GeoIp go without releasing its resource.
Drop_without_delete(t) ==
  /\ result = NoResult
  /\ pc[t] = "idle"
  /\ handle[t].live
  /\ result' = Returned(t, "drop", handle[t].db, None, <<>>)
  /\ handle' = [handle EXCEPT ![t] = NoHandle]
  /\ UNCHANGED <<pc, loc, LOCK, nativeInit, dbs, recs, ub, asIn, asOut, fnIn, fnOut, prev>>

\* A drop that takes LOCK around GeoIP_delete: it waits while another thread
\* holds the mutex.
Drop_waiting_for_lock(t) ==
  /\ result = NoResult
  /\ pc[t] = "idle"
  /\ handle[t].live
  /\ LOCK = 0
  /\ LET db == handle[t].db
     IN /\ dbs' = [dbs EXCEPT ![db] = FreeDb]
        /\ ub' = ub \cup (IF dbs[db].live THEN {} ELSE {"db_deleted_twice"})
        /\ result' =
              Returned(t, "drop", db, None, <<Call("GeoIP_delete", db, 0)>>)
  /\ handle' = [handle EXCEPT ![t] = NoHandle]
  /\ UNCHANGED <<pc, loc, LOCK, nativeInit, recs, asIn, asOut, fnIn, fnOut, prev>>

\* The owner lets go of its GeoIp: drop() issues GeoIP_delete(self.db).
Drop(t) ==
  /\ result = NoResult
  /\ pc[t] = "idle"
  /\ handle[t].live
  /\ LET db == handle[t].db
     IN /\ dbs' = [dbs EXCEPT ![db] = FreeDb]
        /\ ub' = ub \cup (IF dbs[db].live THEN {} ELSE {"db_deleted_twice"})
        /\ result' =
              Returned(t, "drop", db, None, <<Call("GeoIP_delete", db, 0)>>)
  /\ handle' = [handle EXCEPT ![t] = NoHandle]
  /\ UNCHANGED <<pc, loc, LOCK, nativeInit, recs, asIn, asOut, fnIn, fnOut, prev>>


\* ---------------------------------------------------------- native queries

\* A query on a resource that is open and intact answers from the database;
\* on a released or damaged resource it may answer anything.
DbIntact(db) == db \in DOMAIN dbs /\ dbs[db].live /\ ~dbs[db].corrupt

RowAnswers(db, row) == IF DbIntact(db) THEN {row} ELSE Rows \cup {"none"}

QueryMisuse(db) ==
  IF db \in DOMAIN dbs /\ dbs[db].live THEN {} ELSE {"query_on_released_db"}

\* ------------------------------------------ the tail of both record lookups

\* Dereferencing a record pointer: a live record reads as its row, a freed
\* one as whatever the memory holds.
RecordReads(heap, cres) == IF heap[cres].live THEN {heap[cres].row} ELSE Rows

ReadMisuse(heap, cres) == IF heap[cres].live THEN {} ELSE {"read_of_freed_record"}

DeleteMisuse(heap, cres) == IF heap[cres].live THEN {} ELSE {"record_deleted_twice"}

\* The record is released first and read afterwards.
delete_then_copy(heap, cres) ==
  LET freed == [heap EXCEPT ![cres] = FreeRec]
  IN [reads |-> RecordReads(freed, cres),
      misuse |-> DeleteMisuse(heap, cres) \cup ReadMisuse(freed, cres),
      heap |-> freed,
      calls |-> <<Call("GeoIPRecord_delete", cres, 0), Call("deref", cres, 0)>>]

\* CityInfo::from_geoiprecord(&*cres); GeoIPRecord_delete(cres);
\* mem::forget(cres): the rows the copy may have read, the record heap
\* afterwards, and the events in their order.
copy_then_delete(heap, cres) ==
  [reads |-> RecordReads(heap, cres),
   misuse |-> ReadMisuse(heap, cres) \cup DeleteMisuse(heap, cres),
   heap |-> [heap EXCEPT ![cres] = FreeRec],
   calls |-> <<Call("deref", cres, 0), Call("GeoIPRecord_delete", cres, 0)>>]

\* A native record lookup that found row: the record is allocated at the
\* lowest free address; 0 is the null result.
RecordAddress(heap, row) == IF row = "none" THEN 0 ELSE FreeSlot(heap)

RecordAlloc(heap, row) ==
  IF row = "none" THEN heap
  ELSE [heap EXCEPT ![FreeSlot(heap)] = [live |-> TRUE, row |-> row]]

\* CityInfo::from_geoiprecord(&*cres) for a record holding each row.
CityInfoOf == [row \in Rows |-> from_geoiprecord(RowData(row))]

\* ------------------------------------------------- GeoIp::city_info_by_ip

CityInfoByIp(t, ip) ==
  /\ result = NoResult
  /\ pc[t] = "idle"
  /\ handle[t].live
  /\ HasFree(recs)
  /\ LET db == handle[t].db
         c == CNetworkIp_new(ip)
         f == IF c.fam = "V4" THEN "GeoIP_record_by_ipnum" ELSE "GeoIP_record_by_ipnum_v6"
     IN \E row \in RowAnswers(db, GeoIP_record_by_ipnum(c)) :
          LET cres == RecordAddress(recs, row)
              heap == RecordAlloc(recs, row)
          IN IF cres = 0
             THEN /\ result' = Returned(t, "city_info_by_ip", ip, None, <<Call(f, db, 0)>>)
                  /\ ub' = ub \cup QueryMisuse(db)
                  /\ UNCHANGED recs
             ELSE LET tail == copy_then_delete(heap, cres)
                  IN \E got \in tail.reads :
                       /\ result' = Returned(t, "city_info_by_ip", ip,
                                             Some(CityInfoOf[got]),
                                             <<Call(f, db, cres)>> \o tail.calls)
                       /\ ub' = ub \cup QueryMisuse(db) \cup tail.misuse
                       /\ recs' = tail.heap
  /\ UNCHANGED <<pc, handle, loc, LOCK, nativeInit, dbs, asIn, asOut, fnIn, fnOut, prev>>

\* ----------------------------------------------- GeoIp::city_info_by_name

\* name.as_ptr() is handed to both native name lookups: each reads the name
\* and whatever bytes follow it up to a terminator.
CityInfoByName(t, name, after) ==
  /\ result = NoResult
  /\ pc[t] = "idle"
  /\ handle[t].live
  /\ NumFree(recs) >= 2
  /\ LET db == handle[t].db
         cstring == name \o after
     IN \E row4 \in RowAnswers(db, GeoIP_record_by_name(cstring)),
           row6 \in RowAnswers(db, GeoIP_record_by_name_v6(cstring)) :
          LET cres_v4 == RecordAddress(recs, row4)
              heap4 == RecordAlloc(recs, row4)
              cres_v6 == RecordAddress(heap4, row6)
              heap6 == RecordAlloc(heap4, row6)
              cres == IF cres_v6 = 0 THEN cres_v4 ELSE cres_v6
              lookups == <<Call("GeoIP_record_by_name", db, cres_v4),
                           Call("GeoIP_record_by_name_v6", db, cres_v6)>>
          IN IF cres = 0
             THEN /\ result' = Returned(t, "city_info_by_name", name, None, lookups)
                  /\ ub' = ub \cup QueryMisuse(db)
                  /\ UNCHANGED recs
             ELSE LET tail == copy_then_delete(heap6, cres)
                  IN \E got \in tail.reads :
                       /\ result' = Returned(t, "city_info_by_name", name,
                                             Some(CityInfoOf[got]),
                                             lookups \o tail.calls)
                       /\ ub' = ub \cup QueryMisuse(db) \cup tail.misuse
                       /\ recs' = tail.heap
  /\ UNCHANGED <<pc, handle, loc, LOCK, nativeInit, dbs, asIn, asOut, fnIn, fnOut, prev>>

\* --------------------------------------------------- GeoIp::as_info_by_ip

\* The answers the native name lookup has for the addresses queried.
Descriptions == {GeoIP_name_by_ipnum_gl(CNetworkIp_new(ip)) : ip \in IPs}

NameAnswers(db, ans) == IF DbIntact(db) THEN {ans} ELSE Descriptions

\* The decoding of each answer: the body of as_info_by_ip after the native
\* call.
AsInfoOf == [ans \in Descriptions |-> as_info_decode(ans.name, ans.netmask)]

\* The address of a string the native library allocated for the caller.
StringAddress == 1

\* The native name lookup and the decoding of its description.  The string
\* the native call returns is allocated for the caller; nothing in
\* as_info_by_ip releases it.
AsInfoByIp(t, ip) ==
  /\ result = NoResult
  /\ pc[t] = "idle"
  /\ handle[t].live
  /\ LET db == handle[t].db
         c == CNetworkIp_new(ip)
         f == IF c.fam = "V4" THEN "GeoIP_name_by_ipnum_gl" ELSE "GeoIP_name_by_ipnum_v6_gl"
     IN /\ ub' = ub \cup QueryMisuse(db)
        /\ \E ans \in NameAnswers(db, GeoIP_name_by_ipnum_gl(c)) :
             LET cres == IF ans.name.null THEN 0 ELSE StringAddress
             IN result' = Returned(t, "as_info_by_ip", ip,
                                   AsInfoOf[ans],
                                   <<Call(f, db, cres)>>)
  /\ UNCHANGED <<pc, handle, loc, LOCK, nativeInit, dbs, recs, asIn, asOut, fnIn, fnOut, prev>>

\* ------------------------------------------------------------ GeoIp::info

\* The body of info in which the Err arm returns without releasing the
\* buffer.
info_decode_leak_on_error(c_string, ptr) ==
  IF c_string.null THEN [ret |-> Err(ReadInfoError_InfoFailed), calls |-> <<>>]
  ELSE LET text == to_str(c_string.bytes)
       IN IF text.tag = "Ok"
          THEN [ret |-> Ok(text.val),
                calls |-> <<Call("deref", ptr, 0), Call("free", ptr, 0)>>]
          ELSE [ret |-> Err(ReadInfoError_InvalidData(text.err)),
                calls |-> <<Call("deref", ptr, 0)>>]

\* The body of info after GeoIP_database_info returned c_string at address
\* ptr: what info returns, and the events on the buffer in their order (the
\* text is read and copied, then the buffer is given to libc::free).
info_decode(c_string, ptr) ==
  IF c_string.null THEN [ret |-> Err(ReadInfoError_InfoFailed), calls |-> <<>>]
  ELSE LET text == to_str(c_string.bytes)
       IN IF text.tag = "Ok"
          THEN [ret |-> Ok(text.val),
                calls |-> <<Call("deref", ptr, 0), Call("free", ptr, 0)>>]
          ELSE [ret |-> Err(ReadInfoError_InvalidData(text.err)),
                calls |-> <<Call("deref", ptr, 0), Call("free", ptr, 0)>>]

\* GeoIP_database_info on an intact database: the build string of the
\* database the model has installed.
DatabaseInfo == CStr(<<71, 69, 79, 45, 49, 51, 51>>)

\* The buffers GeoIP_database_info may hand back: none, text, and bytes that
\* are not text.
InfoBuffers == {NULL, DatabaseInfo, CStr(<<71, 195>>)}

InfoAnswers(db) == IF DbIntact(db) THEN {DatabaseInfo} ELSE InfoBuffers

InfoOf == [c_string \in InfoBuffers |-> info_decode(c_string, StringAddress)]

Info(t) ==
  /\ result = NoResult
  /\ pc[t] = "idle"
  /\ handle[t].live
  /\ LET db == handle[t].db
     IN /\ ub' = ub \cup QueryMisuse(db)
        /\ \E c_string \in InfoAnswers(db) :
             LET ptr == IF c_string.null THEN 0 ELSE StringAddress
             IN result' = Returned(t, "info", db, InfoOf[c_string].ret,
                                   <<Call("GeoIP_database_info", db, ptr)>>
                                     \o InfoOf[c_string].calls)
  /\ UNCHANGED <<pc, handle, loc, LOCK, nativeInit, dbs, recs, asIn, asOut, fnIn, fnOut, prev>>

\* ------------------- GeoIp::region_name_by_code and the time zone lookup

\* Country and region codes given to the two static lookups: "US" "CA", and
\* "foo" "bar".
CodePairs == {<<(<<85, 83>>), (<<67, 65>>)>>,
              <<(<<102, 111, 111>>), (<<98, 97, 114>>)>>}

\* The native tables: a pointer to static text, or null.
GeoIP_region_name_by_code(country_code, region_code) ==
  IF country_code = <<85, 83>> /\ region_code = <<67, 65>>
  THEN CStr(<<67, 97, 108, 105, 102, 111, 114, 110, 105, 97>>)
  ELSE NULL

GeoIP_time_zone_by_country_and_region(country_code, region_code) ==
  IF country_code = <<85, 83>> /\ region_code = <<67, 65>>
  THEN CStr(<<65, 109, 101, 114, 105, 99, 97, 47, 76, 111, 115, 95, 65, 110,
              103, 101, 108, 101, 115>>)
  ELSE NULL

\* The address of text in the native library's static tables.
StaticAddress == 1

\* Both static lookups: CString::new(..).unwrap() on each code, the native
\* call, None for a null answer and to_str().expect(..) otherwise.  native
\* is the answer of the native table for the two codes.
static_lookup(f, country_code, region_code, native) ==
  IF CString_new(country_code).tag = "Err" \/ CString_new(region_code).tag = "Err"
  THEN [ret |-> Panic, calls |-> <<>>]
  ELSE IF native.null
  THEN [ret |-> None, calls |-> <<Call(f, 0, 0)>>]
  ELSE [ret |-> IF to_str(native.bytes).tag = "Ok" THEN Some(native.bytes) ELSE Panic,
        calls |-> <<Call(f, 0, StaticAddress)>>]

\* region_name_by_code for each pair of codes.
RegionNameOf ==
  [codes \in CodePairs |->
     static_lookup("GeoIP_region_name_by_code", codes[1], codes[2],
                   GeoIP_region_name_by_code(codes[1], codes[2]))]

\* time_zone_by_country_and_region for each pair of codes.
TimeZoneOf ==
  [codes \in CodePairs |->
     static_lookup("GeoIP_time_zone_by_country_and_region", codes[1], codes[2],
                   GeoIP_time_zone_by_country_and_region(codes[1], codes[2]))]

RegionNameByCode(t, codes) ==
  /\ result = NoResult
  /\ pc[t] = "idle"
  /\ LET r == RegionNameOf[codes]
     IN result' = Returned(t, "region_name_by_code", codes, r.ret, r.calls)
  /\ UNCHANGED <<pc, handle, loc, LOCK, nativeInit, dbs, recs, ub, asIn, asOut, fnIn, fnOut, prev>>

TimeZoneByCountryAndRegion(t, codes) ==
  /\ result = NoResult
  /\ pc[t] = "idle"
  /\ LET r == TimeZoneOf[codes]
     IN result' = Returned(t, "time_zone_by_country_and_region", codes, r.ret, r.calls)
  /\ UNCHANGED <<pc, handle, loc, LOCK, nativeInit, dbs, recs, ub, asIn, asOut, fnIn, fnOut, prev>>

\* ------------------------------------------------------- specifications

\* The caller takes the value its call returned.  A returned value is
\* looked at before the next step of any thread is followed (every action
\* waits for result = NoResult); taking it touches nothing of the program's
\* state, so the steps of the program still interleave in every order.
TakeResult ==
  /\ result # NoResult
  /\ result' = NoResult
  /\ UNCHANGED <<pc, handle, loc, LOCK, nativeInit, dbs, recs, ub, asIn, asOut, fnIn, fnOut, prev>>

Next ==
  \/ TakeResult
  \/ \E t \in Threads :
       \/ \E path \in Paths : Open(t, path)
       \/ \E db_type \in DBTypes : OpenTypeCall(t, db_type)
       \/ OpenTypeLock(t)
       \/ OpenTypeNativeReturn(t)
       \/ OpenTypeSetCharset(t)
       \/ Drop(t)
       \/ \E ip \in IPs : CityInfoByIp(t, ip)
       \/ \E name \in Names, after \in NameTails : CityInfoByName(t, name, after)
       \/ \E ip \in IPs : AsInfoByIp(t, ip)
       \/ Info(t)
       \/ \E codes \in CodePairs : RegionNameByCode(t, codes)
       \/ \E codes \in CodePairs : TimeZoneByCountryAndRegion(t, codes)

Spec == Init /\ [][Next]_vars

\* Scheduling: a caller takes the value returned to it; a thread that is
\* at a step of open_type can take it again and again (whenever no returned
\* value is waiting to be taken) and does take it; a thread blocked in
\* LOCK.lock() gets the mutex if it is free again and again.
Fairness ==
  /\ WF_vars(TakeResult)
  /\ \A t \in Threads :
       /\ SF_vars(OpenTypeLock(t))
       /\ SF_vars(OpenTypeNativeReturn(t))
       /\ SF_vars(OpenTypeSetCharset(t))

\* The callers of open_type on their own: threads that open by type, and
\* drop the handle they got, again and again.
NextOpenType ==
  \/ TakeResult
  \/ \E t \in Threads :
       \/ \E db_type \in DBTypes : OpenTypeCall(t, db_type)
       \/ OpenTypeLock(t)
       \/ OpenTypeNativeReturn(t)
       \/ OpenTypeSetCharset(t)
       \/ Drop(t)

SpecOpenType == Init /\ [][NextOpenType]_vars /\ Fairness

\* The four queries a caller may repeat.
QueryOps == {"city_info_by_ip", "as_info_by_ip", "city_info_by_name", "info"}

\* The caller keeps the value a query returned, to compare it with what a
\* later call returns; any number of calls may lie between the two.
Remember ==
  /\ result.op \in QueryOps
  /\ prev' = [op |-> result.op, arg |-> result.arg, ret |-> result.ret]
  /\ result' = NoResult
  /\ UNCHANGED <<pc, handle, loc, LOCK, nativeInit, dbs, recs, ub, asIn, asOut, fnIn, fnOut>>

NextQuery == Remember \/ Next

SpecQuery == Init /\ [][NextQuery]_vars

\* The description decoder on its own, over every description of bounded
\* length from an alphabet that covers the decoder's cases, and a few longer
\* ones around the u32 limit.
DescAlphabet == {65, 83, 32, 49, 43, 120, 195, 169}

RECURSIVE SeqsUpTo(_, _)
SeqsUpTo(S, n) ==
  IF n = 0 THEN {<<>>}
  ELSE LET shorter == SeqsUpTo(S, n - 1)
       IN shorter \cup {Append(s, x) : s \in {q \in shorter : Len(q) = n - 1}, x \in S}

LongDescs ==
  {<<65, 83, 52, 50, 57, 52, 57, 54, 55, 50, 57, 53, 32, 120>>,
   <<65, 83, 52, 50, 57, 52, 57, 54, 55, 50, 57, 54, 32, 120>>,
   <<65, 83, 49, 53, 49, 54, 57, 32, 71, 111, 111, 103, 108, 101, 32, 73, 110, 99, 46>>,
   <<65, 83, 49, 53, 49, 54, 57>>,
   <<65, 83, 45, 49, 32, 120>>,
   <<65, 83, 48, 48, 55, 32, 120>>}

Netmasks == {0, 24, -1}

DescInputs ==
  {NULL} \cup {CStr(s) : s \in SeqsUpTo(DescAlphabet, MaxDescLen) \cup LongDescs}

InitAs ==
  /\ MainInit
  /\ asIn \in [cres : DescInputs, netmask : Netmasks]
  /\ asOut = Pending
  /\ fnIn = NoInput
  /\ fnOut = Pending

AsInfoDecode ==
  /\ asOut = Pending
  /\ asOut' = as_info_decode(asIn.cres, asIn.netmask)
  /\ UNCHANGED <<asIn, fnIn, fnOut, MainVars>>

NextAs == AsInfoDecode

SpecAs == InitAs /\ [][NextAs]_vars


\* info on its own, over every buffer of bounded length the native call may
\* return.
InitInfo ==
  /\ MainInit
  /\ asIn = [cres |-> NULL, netmask |-> 0]
  /\ asOut = Pending
  /\ fnIn \in [f : {"info"}, c_string : DescInputs]
  /\ fnOut = Pending

InfoDecode ==
  /\ fnIn.f = "info"
  /\ fnOut = Pending
  /\ fnOut' = info_decode(fnIn.c_string, StringAddress)
  /\ UNCHANGED <<fnIn, asIn, asOut, MainVars>>

NextInfo == InfoDecode

SpecInfo == InitInfo /\ [][NextInfo]_vars

\* CNetworkIp::new on its own, over addresses whose octets and groups are
\* drawn from values at the ends and in the middle of their ranges.
OctetValues == {0, 1, 8, 127, 128, 255}
SegmentValues == {0, 8193, 65280}

IpInputs ==
  {V4(octets) : octets \in [1..4 -> OctetValues]}
    \cup {V6(segments) : segments \in [1..8 -> SegmentValues]}

InitIp ==
  /\ MainInit
  /\ asIn = [cres |-> NULL, netmask |-> 0]
  /\ asOut = Pending
  /\ fnIn \in [f : {"CNetworkIp_new"}, ip : IpInputs]
  /\ fnOut = Pending

Encode ==
  /\ fnIn.f = "CNetworkIp_new"
  /\ fnOut = Pending
  /\ fnOut' = CNetworkIp_new(fnIn.ip)
  /\ UNCHANGED <<fnIn, asIn, asOut, MainVars>>

NextIp == Encode

SpecIp == InitIp /\ [][NextIp]_vars

\* CityInfo::from_geoiprecord on its own, over records whose two codes are
\* drawn from zero, small and large values and a negative c_int, and whose
\* city is null, text, or bytes that are not text.
CodeValues == {0, 1, 650, 807, 65536, -1}
CityValues == {NULL, CStr(<<76, 100, 110>>), CStr(<<200>>)}

GeoIpRecord(dma_code, area_code, city) ==
  [country_code |-> CStr(<<85, 83>>),
   country_code3 |-> CStr(<<85, 83, 65>>),
   country_name |-> NULL,
   region |-> NULL,
   city |-> city,
   postal_code |-> NULL,
   latitude |-> 0, longitude |-> 0,
   dma_code |-> dma_code, area_code |-> area_code, charset |-> 1,
   continent_code |-> CStr(<<78, 65>>), netmask |-> 24]

RecordInputs ==
  {GeoIpRecord(dma_code, area_code, city) :
     dma_code \in CodeValues, area_code \in CodeValues, city \in CityValues}

InitRecord ==
  /\ MainInit
  /\ asIn = [cres |-> NULL, netmask |-> 0]
  /\ asOut = Pending
  /\ fnIn \in [f : {"from_geoiprecord"}, res : RecordInputs]
  /\ fnOut = Pending

DecodeRecord ==
  /\ fnIn.f = "from_geoiprecord"
  /\ fnOut = Pending
  /\ fnOut' = from_geoiprecord(fnIn.res)
  /\ UNCHANGED <<fnIn, asIn, asOut, MainVars>>

NextRecord == DecodeRecord

SpecRecord == InitRecord /\ [][NextRecord]_vars

\* ------------------------------------------------------------------ claims

RecordLookups == {"GeoIP_record_by_ipnum", "GeoIP_record_by_ipnum_v6",
                  "GeoIP_record_by_name", "GeoIP_record_by_name_v6"}

IsRecordLookup(r) == r.op \in {"city_info_by_ip", "city_info_by_name"}

\* How often a native call f on pointer p occurs in a call log.
TimesCalled(calls, f, p) ==
  Cardinality({k \in DOMAIN calls : calls[k].f = f /\ calls[k].ptr = p})

\* C1: when a record lookup returns, every non-null record a native lookup
\* gave it has been passed to GeoIPRecord_delete exactly once, and
\* GeoIPRecord_delete was never given a null pointer.
C1_EveryRecordDeletedOnce ==
  IsRecordLookup(result) =>
    LET calls == result.calls
    IN /\ \A k \in DOMAIN calls :
            (calls[k].f \in RecordLookups /\ calls[k].ret # 0)
              => TimesCalled(calls, "GeoIPRecord_delete", calls[k].ret) = 1
       /\ TimesCalled(calls, "GeoIPRecord_delete", 0) = 0

\* C2 as stated: a thread of open_type that is in the native open call or in
\* the set-charset call that follows holds LOCK.
C2_LockHeldThroughSetCharset ==
  \A t \in Threads : pc[t] \in {"ot_native", "ot_charset"} => LOCK = t

\* C2 as amended: a thread inside GeoIP_open_type holds LOCK; the guard is
\* released when that call returns, so a thread of open_type that is in
\* GeoIP_set_charset does not hold LOCK.
C2_LockHeldDuringNativeOpenOnly ==
  \A t \in Threads :
    /\ pc[t] = "ot_native" => LOCK = t
    /\ pc[t] = "ot_charset" => LOCK # t

C2_Witness ==
  \E t, u \in Threads :
    t # u /\ pc[t] = "ot_charset" /\ pc[u] = "ot_native" /\ LOCK = u

\* What city_info_by_ip returns from an intact database.
CityReference(ip) ==
  LET row == GeoIP_record_by_ipnum(CNetworkIp_new(ip))
  IN IF row = "none" THEN None ELSE Some(CityInfoOf[row])

\* C3: at most one thread is inside GeoIP_open_type at a time; the native
\* open answers the same for the same type to every caller; no resource is
\* damaged by a racing open, and every lookup returns what a handle opened
\* alone returns.
C3_OpenTypeSerialized ==
  /\ Cardinality({t \in Threads : pc[t] = "ot_native"}) <= 1
  /\ \A i \in DOMAIN dbs : ~dbs[i].corrupt
  /\ \A t \in Threads : pc[t] = "ot_native" => ~loc[t].partial
  /\ result.op = "open_type" =>
       (result.calls[1].ret # 0 <=> result.arg \in Installed)
  /\ result.op = "city_info_by_ip" => result.ret = CityReference(result.arg)

C3_Witness ==
  \E t, u \in Threads :
    /\ t # u
    /\ pc[t] = "ot_lock"
    /\ pc[u] = "ot_native" /\ nativeInit = "busy"

\* C4: a live handle's resource is non-null, open and its own; no two
\* handles hold the same resource; a resource given to a handle is released
\* by exactly one GeoIP_delete, issued when the handle is dropped; no native
\* query is issued on a released resource.
C4_HandleOwnsResource ==
  /\ \A t \in Threads :
       handle[t].live =>
         /\ handle[t].db \in DOMAIN dbs
         /\ dbs[handle[t].db].live
         /\ dbs[handle[t].db].owned
         /\ \A u \in Threads : (u # t /\ handle[u].live) => handle[u].db # handle[t].db
  /\ \A i \in DOMAIN dbs :
       (dbs[i].live /\ dbs[i].owned) => \E t \in Threads : handle[t] = GeoIp(i)
  /\ result.op = "drop" =>
       /\ result.calls = <<Call("GeoIP_delete", result.arg, 0)>>
       /\ ~handle[result.t].live
       /\ ~dbs[result.arg].live
  /\ "db_deleted_twice" \notin ub
  /\ "query_on_released_db" \notin ub

C4_Witness ==
  /\ result.op = "drop"
  /\ ~handle[result.t].live
  /\ \E u \in Threads : u # result.t /\ handle[u].live

\* The position of the first event f on pointer p in a call log, 0 if none.
FirstAt(calls, f, p) ==
  IF \E k \in DOMAIN calls : calls[k].f = f /\ calls[k].ptr = p
  THEN CHOOSE k \in DOMAIN calls :
         /\ calls[k].f = f /\ calls[k].ptr = p
         /\ \A j \in 1..(k - 1) : ~(calls[j].f = f /\ calls[j].ptr = p)
  ELSE 0

\* C5: in a record lookup that found a record, the record is read before it
\* is deleted, the delete is the last event of the lookup (the pointer is
\* not used again), no freed record is ever read or deleted again, and what
\* is returned is the decoded copy of the record the native lookup gave.
C5_CopyThenFree ==
  /\ "read_of_freed_record" \notin ub
  /\ "record_deleted_twice" \notin ub
  /\ (IsRecordLookup(result) /\ result.ret.tag = "Some") =>
       LET calls == result.calls
           n == Len(calls)
           cres == calls[n].ptr
       IN /\ calls[n].f = "GeoIPRecord_delete"
          /\ cres # 0
          /\ \E k \in 1..(n - 1) : calls[k].f \in RecordLookups /\ calls[k].ret = cres
          /\ FirstAt(calls, "deref", cres) # 0
          /\ FirstAt(calls, "deref", cres) < FirstAt(calls, "GeoIPRecord_delete", cres)
          /\ ~recs[cres].live
          /\ result.ret.val \in {CityInfoOf[row] : row \in Rows}
          /\ result.op = "city_info_by_ip" => result.ret = CityReference(result.arg)

C5_Witness ==
  /\ result.op = "city_info_by_name"
  /\ result.ret.tag = "Some"
  /\ result.calls[Len(result.calls)] = Call("GeoIPRecord_delete", 2, 0)

\* C6: when as_info_by_ip returns and the native name lookup gave it a
\* non-null string, that string has been released exactly once.
C6_DescriptionReleased ==
  (result.op = "as_info_by_ip" /\ result.calls[1].ret # 0) =>
    TimesCalled(result.calls, "free", result.calls[1].ret) = 1

\* A token that is a decimal number in 0..2^32-1.
IsDigits(tok) == Len(tok) >= 1 /\ \A i \in DOMAIN tok : tok[i] >= 48 /\ tok[i] <= 57
IsDecimalU32(tok) == IsDigits(tok) /\ ParseDigits(tok, 1, U32(0, 0)).ok

BeginsWithAS(bytes) == Len(bytes) >= 2 /\ bytes[1] = 65 /\ bytes[2] = 83

\* The token after "AS", up to the first space.
TokenAfterAS(bytes) ==
  LET k == FindByte(bytes, 32)
  IN SubSeq(bytes, 3, IF k = 0 THEN Len(bytes) ELSE k - 1)

Decoded == asOut.tag # "Pending"
ValidText == ~asIn.cres.null /\ Utf8ValidFrom(asIn.cres.bytes, 1)

\* C7: a description that starts with "AS" but whose next token is not a
\* decimal number in 0..2^32-1 decodes to None.
C7_UnparsableNumberIsNone ==
  (Decoded /\ ValidText /\ BeginsWithAS(asIn.cres.bytes)
     /\ ~IsDecimalU32(TokenAfterAS(asIn.cres.bytes)))
    => asOut.tag = "None"

\* C8: a null description, one that is not valid text, and one that does
\* not begin with "AS" (the empty one included) decode to None.
C8_NoPrefixIsNone ==
  (Decoded /\ (asIn.cres.null \/ ~ValidText \/ ~BeginsWithAS(asIn.cres.bytes)))
    => asOut.tag = "None"

C8_Witness ==
  /\ Decoded
  /\ ~asIn.cres.null
  /\ Len(asIn.cres.bytes) >= 2
  /\ asIn.cres.bytes[1] = 65
  /\ asIn.cres.bytes[2] # 83
  /\ asOut.tag = "None"

\* C9: city_info_by_name issues the IPv6 name lookup first and the IPv4 one
\* only if the IPv6 one returned null; it returns the IPv6 record if there
\* is one, else the IPv4 record, and None only if both are null.
C9_V6FirstV4Fallback ==
  result.op = "city_info_by_name" =>
    LET calls == result.calls
    IN /\ calls[1].f = "GeoIP_record_by_name_v6"
       /\ \A k \in DOMAIN calls :
            calls[k].f = "GeoIP_record_by_name" => (k = 2 /\ calls[1].ret = 0)
       /\ result.ret.tag = "None" <=>
            \A k \in DOMAIN calls : calls[k].f \in RecordLookups => calls[k].ret = 0

FoobarBaz == <<102, 111, 111, 98, 97, 114, 46, 98, 97, 122>>

\* C10: when the native open returns null, open returns OpenFailed with the
\* path it was given, displayed as "Failed to open database from path
\* '<path>'"; the thread gets no handle and no further native call is made.
C10_OpenFailedCarriesPath ==
  (result.op = "open" /\ Len(result.calls) >= 1 /\ result.calls[1].ret = 0) =>
    /\ result.ret.tag = "Err"
    /\ result.ret.err.kind = "OpenFailed"
    /\ result.ret.err.path = result.arg
    /\ result.arg = FoobarBaz =>
         Display_OpenPathError(result.ret.err)
           = <<70, 97, 105, 108, 101, 100, 32, 116, 111, 32, 111, 112, 101, 110,
               32, 100, 97, 116, 97, 98, 97, 115, 101, 32, 102, 114, 111, 109,
               32, 112, 97, 116, 104, 32, 39, 102, 111, 111, 98, 97, 114, 46,
               98, 97, 122, 39>>
    /\ result.calls = <<Call("GeoIP_open", 0, 0)>>
    /\ ~handle[result.t].live

C10_Witness ==
  /\ result.op = "open"
  /\ result.arg = <<102, 255>>
  /\ result.ret.tag = "Err"
  /\ result.ret.err.kind = "OpenFailed"

\* C11: a handle is returned by open or open_type only after exactly one
\* GeoIP_set_charset on the resource the native open returned, and that call
\* reported 0; when it reports non-zero the call returns SetCharsetFailed
\* with the UTF-8 charset and the thread gets no handle.
C11_CharsetSetBeforeHandle ==
  /\ \A t \in Threads : handle[t].live => dbs[handle[t].db].charsets = 1
  /\ result.op \in {"open", "open_type"} =>
       LET calls == result.calls
           n == Len(calls)
       IN /\ result.ret.tag = "Ok" =>
               /\ n = 2
               /\ calls[1].f = (IF result.op = "open" THEN "GeoIP_open" ELSE "GeoIP_open_type")
               /\ calls[1].ret # 0
               /\ calls[2] = Call("GeoIP_set_charset", calls[1].ret, 0)
               /\ result.ret.val = GeoIp(calls[1].ret)
               /\ handle[result.t] = GeoIp(calls[1].ret)
          /\ (n >= 2 /\ calls[2].ret # 0) =>
               /\ calls[2].f = "GeoIP_set_charset"
               /\ result.ret.tag = "Err"
               /\ result.ret.err = [kind |-> "SetCharsetFailed", charset |-> Utf8]
               /\ ~handle[result.t].live
          /\ \A k \in DOMAIN calls :
               calls[k].f = "GeoIP_set_charset" => (k = 2 /\ calls[k].ptr = calls[1].ret)

C11_Witness ==
  /\ result.op = "open_type"
  /\ result.ret.tag = "Err"
  /\ result.ret.err.kind = "SetCharsetFailed"
  /\ \E u \in Threads : u # result.t /\ handle[u].live


\* C12: info returns InfoFailed and frees nothing when the native call
\* returned null; a non-null buffer is given to free exactly once and never
\* to GeoIPRecord_delete, after its text has been read, both when info
\* returns Ok with the text and when it returns InvalidData.
C12_InfoBufferFreedOnce ==
  (fnIn.f = "info" /\ fnOut # Pending) =>
    LET c_string == fnIn.c_string
        calls == fnOut.calls
    IN /\ c_string.null =>
            /\ fnOut.ret = Err([kind |-> "InfoFailed"])
            /\ calls = <<>>
       /\ ~c_string.null =>
            /\ TimesCalled(calls, "free", StringAddress) = 1
            /\ TimesCalled(calls, "GeoIPRecord_delete", StringAddress) = 0
            /\ calls[Len(calls)].f = "free"
            /\ FirstAt(calls, "deref", StringAddress) # 0
            /\ FirstAt(calls, "deref", StringAddress) < FirstAt(calls, "free", StringAddress)
            /\ Utf8ValidFrom(c_string.bytes, 1) => fnOut.ret = Ok(c_string.bytes)
            /\ ~Utf8ValidFrom(c_string.bytes, 1) =>
                 /\ fnOut.ret.tag = "Err"
                 /\ fnOut.ret.err.kind = "InvalidData"

C12_Witness ==
  /\ fnIn.f = "info"
  /\ fnOut # Pending
  /\ ~fnIn.c_string.null
  /\ fnIn.c_string.bytes = <<65, 195>>
  /\ fnOut.ret.tag = "Err"
  /\ fnOut.ret.err.err = [valid_up_to |-> 1, error_len |-> None]
  /\ TimesCalled(fnOut.calls, "free", StringAddress) = 1


\* C13: a thread that is not inside open_type does not hold LOCK, and a
\* thread that has called open_type gets LOCK, leaves the native open and
\* returns Ok or Err.
C13_LockReleasedAndCallersReturn ==
  /\ [](\A t \in Threads : (pc[t] \in {"idle", "ot_lock", "ot_charset"}) => LOCK # t)
  /\ \A t \in Threads :
       /\ (pc[t] = "ot_lock") ~> (pc[t] = "ot_native" /\ LOCK = t)
       /\ (pc[t] = "ot_lock") ~>
            (result.op = "open_type" /\ result.t = t /\ result.ret.tag \in {"Ok", "Err"}
               /\ pc[t] = "idle" /\ LOCK # t)

C13_Witness ==
  /\ result.op = "open_type"
  /\ result.ret.tag = "Err"
  /\ result.ret.err.kind = "OpenFailed"
  /\ pc[result.t] = "idle"
  /\ LOCK = 0
  /\ \E u \in Threads : u # result.t /\ pc[u] = "ot_lock"


\* What a thread that is between calls can call next, whoever holds LOCK:
\* with a handle, every query and the drop (the record lookups as far as the
\* native heap has room for their records); without one, the path-based
\* open; and the two static lookups in either case.
CallsOpenTo(t) ==
  /\ \A codes \in CodePairs :
       /\ ENABLED RegionNameByCode(t, codes)
       /\ ENABLED TimeZoneByCountryAndRegion(t, codes)
  /\ ~handle[t].live => \A path \in Paths : ENABLED Open(t, path)
  /\ handle[t].live =>
       /\ ENABLED Drop(t)
       /\ ENABLED Info(t)
       /\ \A ip \in IPs : ENABLED AsInfoByIp(t, ip)
       /\ HasFree(recs) => \A ip \in IPs : ENABLED CityInfoByIp(t, ip)
       /\ NumFree(recs) >= 2 =>
            \A name \in Names, after \in NameTails : ENABLED CityInfoByName(t, name, after)

\* C14: LOCK is held only by a thread that is inside the native open of
\* open_type; every other call is open to a thread between calls while
\* another thread holds LOCK, and a call other than open_type returns
\* without holding LOCK.
C14_OnlyOpenTypeLocks ==
  /\ LOCK # 0 => (LOCK \in Threads /\ pc[LOCK] = "ot_native")
  /\ \A t \in Threads :
       (result = NoResult /\ pc[t] = "idle" /\ LOCK # 0) => CallsOpenTo(t)
  /\ (result.op \notin {"none", "open_type"}) =>
       (pc[result.t] = "idle" /\ LOCK # result.t)

C14_Witness ==
  /\ result.op = "city_info_by_ip"
  /\ LOCK # 0
  /\ LOCK # result.t
  /\ pc[LOCK] = "ot_native"


Encoded == fnIn.f = "CNetworkIp_new" /\ fnOut # Pending

\* C15: an IPv4 address with octets b0, b1, b2, b3 encodes to the V4 value
\* b0*2^24 + b1*2^16 + b2*2^8 + b3 (high half b0*2^8 + b1, low half
\* b2*2^8 + b3), which lies in 0..2^32-1 and from which the four octets are
\* recovered in order; 8.8.8.8 gives 0x08080808.
C15_V4NetworkOrder ==
  (Encoded /\ fnIn.ip.fam = "V4") =>
    LET b == fnIn.ip.octets
        num == fnOut.num
    IN /\ fnOut.fam = "V4"
       /\ num = U32(b[1] * 256 + b[2], b[3] * 256 + b[4])
       /\ num.hi \in 0..(W16 - 1)
       /\ num.lo \in 0..(W16 - 1)
       /\ <<num.hi \div 256, num.hi % 256, num.lo \div 256, num.lo % 256>> = b
       /\ b = <<8, 8, 8, 8>> => num = U32(2056, 2056)

C15_Witness ==
  /\ Encoded
  /\ fnIn.ip = V4(<<8, 8, 8, 8>>)
  /\ fnOut.num = U32(2056, 2056)

\* C16: an IPv6 address with groups g0..g7 encodes to a 16-byte V6 buffer
\* whose byte 2i is gi div 256 and whose byte 2i+1 is gi mod 256; every
\* address of either family is encoded (there is no error result).
C16_V6GroupsBigEndian ==
  Encoded =>
    /\ fnOut.fam = fnIn.ip.fam
    /\ fnIn.ip.fam = "V6" =>
         LET g == fnIn.ip.segments
             bytes == fnOut.bytes
         IN /\ DOMAIN bytes = 1..16
            /\ \A i \in 0..7 :
                 /\ bytes[2 * i + 1] = g[i + 1] \div 256
                 /\ bytes[2 * i + 2] = g[i + 1] % 256
            /\ \A k \in 1..16 : bytes[k] \in 0..255

C16_Witness ==
  /\ Encoded
  /\ fnIn.ip.fam = "V6"
  /\ fnIn.ip.segments[1] = 8193
  /\ fnIn.ip.segments[8] = 65280
  /\ fnOut.bytes[1] = 32 /\ fnOut.bytes[2] = 1
  /\ fnOut.bytes[15] = 255 /\ fnOut.bytes[16] = 0


\* The u32 that holds the c_int n: n itself when it is not negative, and
\* n + 2^32 when it is.
CodeAsU32(n) ==
  IF n >= 0 THEN U32(n \div W16, n % W16)
  ELSE U32(W16 - 1 - ((-n - 1) \div W16), W16 - 1 - ((-n - 1) % W16))

CodeDecoded(native, decoded) ==
  IF native = 0 THEN decoded = None ELSE decoded = Some(CodeAsU32(native))

\* C17: the decoded dma_code is absent if and only if the record's dma_code
\* is zero and is otherwise present with that value (as the u32 it is cast
\* to); likewise area_code; each depends on its own field alone.
C17_CodeAbsentIffZero ==
  (fnIn.f = "from_geoiprecord" /\ fnOut # Pending) =>
    /\ CodeDecoded(fnIn.res.dma_code, fnOut.dma_code)
    /\ CodeDecoded(fnIn.res.area_code, fnOut.area_code)
    /\ fnOut.dma_code.tag = "None" <=> fnIn.res.dma_code = 0
    /\ fnOut.area_code.tag = "None" <=> fnIn.res.area_code = 0

C17_Witness ==
  /\ fnIn.f = "from_geoiprecord"
  /\ fnOut # Pending
  /\ fnIn.res.dma_code = 0
  /\ fnIn.res.area_code = 650
  /\ fnIn.res.city = CStr(<<200>>)
  /\ fnOut.dma_code = None
  /\ fnOut.area_code = Some(U32(0, 650))
  /\ fnOut.city = None


\* The decimal digits of a u32, most significant first, by repeated division
\* by ten.
RECURSIVE DecimalOf(_)
DecimalOf(v) ==
  LET carry == (v.hi % 10) * W16 + v.lo
      q == U32(v.hi \div 10, 0)
      quot == U32(q.hi + (carry \div 10) \div W16, (carry \div 10) % W16)
      digit == 48 + (carry % 10)
  IN IF quot = U32(0, 0) THEN <<digit>> ELSE Append(DecimalOf(quot), digit)

\* tok without its leading zeros (one digit is always kept).
RECURSIVE StripZeros(_)
StripZeros(tok) ==
  IF Len(tok) > 1 /\ tok[1] = 48 THEN StripZeros(Tail(tok)) ELSE tok

U32_MAX_DIGITS == <<52, 50, 57, 52, 57, 54, 55, 50, 57, 53>>

\* tok is a decimal number no larger than 2^32 - 1.
DecimalInU32Range(tok) ==
  /\ IsDigits(tok)
  /\ LET d == StripZeros(tok)
     IN \/ Len(d) < 10
        \/ /\ Len(d) = 10
           /\ \/ d = U32_MAX_DIGITS
              \/ \E i \in 1..10 :
                   /\ d[i] < U32_MAX_DIGITS[i]
                   /\ \A j \in 1..(i - 1) : d[j] = U32_MAX_DIGITS[j]

\* C18: a description "AS<n> <name>" with n a decimal number in 0..2^32-1
\* decodes to an ASInfo whose asn is n, whose name is everything after the
\* first space (further spaces kept) and whose netmask is the value the
\* native call left in the lookup context; with no space the name is
\* "(none)".
C18_AsDescriptionDecoded ==
  (Decoded /\ ValidText /\ BeginsWithAS(asIn.cres.bytes)
     /\ DecimalInU32Range(TokenAfterAS(asIn.cres.bytes)))
    => LET bytes == asIn.cres.bytes
           spaces == {i \in DOMAIN bytes : bytes[i] = 32}
       IN /\ asOut.tag = "Some"
          /\ DecimalOf(asOut.val.asn) = StripZeros(TokenAfterAS(bytes))
          /\ asOut.val.netmask = CodeAsU32(asIn.netmask)
          /\ spaces = {} => asOut.val.name = <<40, 110, 111, 110, 101, 41>>
          /\ \A k \in spaces :
               (\A j \in spaces : k <= j)
                 => asOut.val.name = [i \in 1..(Len(bytes) - k) |-> bytes[k + i]]

C18_Witness ==
  /\ Decoded
  /\ asIn.cres = CStr(<<65, 83, 49, 53, 49, 54, 57, 32, 71, 111, 111, 103, 108, 101, 32, 73, 110, 99, 46>>)
  /\ asIn.netmask = 24
  /\ asOut = Some(ASInfo(U32(0, 15169),
                         <<71, 111, 111, 103, 108, 101, 32, 73, 110, 99, 46>>,
                         U32(0, 24)))


\* C19: two calls of the same query with equal inputs return equal values,
\* whatever was called in between.
C19_QueriesIdempotent ==
  (result.op \in QueryOps /\ prev.op = result.op /\ prev.arg = result.arg)
    => result.ret = prev.ret


\* C20: open on a path with an embedded terminator byte returns
\* OpenPathError::InvalidPath carrying the encoding error (the position of
\* the first such byte and the path's bytes), issues no native call and
\* yields no handle; on every other path the first native call is
\* GeoIP_open and the error is not InvalidPath.
C20_InvalidPathBeforeNativeOpen ==
  result.op = "open" =>
    LET path == result.arg
        zeros == {i \in DOMAIN path : path[i] = 0}
    IN IF zeros # {}
       THEN /\ result.ret.tag = "Err"
            /\ result.ret.err.kind = "InvalidPath"
            /\ result.ret.err.cause.bytes = path
            /\ \A i \in zeros :
                 (\A j \in zeros : i <= j) => result.ret.err.cause.nul_position = i - 1
            /\ result.calls = <<>>
            /\ ~handle[result.t].live
       ELSE /\ Len(result.calls) >= 1
            /\ result.calls[1].f = "GeoIP_open"
            /\ result.ret.tag = "Err" => result.ret.err.kind # "InvalidPath"

C20_Witness ==
  /\ result.op = "open"
  /\ result.arg = <<102, 0, 102>>
  /\ result.ret = Err([kind |-> "InvalidPath",
                       cause |-> [nul_position |-> 1, bytes |-> <<102, 0, 102>>]])
  /\ result.calls = <<>>
  /\ \E u \in Threads : u # result.t /\ handle[u].live

\* C21: every resource a native open returned is either released (by one
\* GeoIP_delete) or owned by exactly one live handle, or belongs to an
\* open_type call that has yet to return; when open or open_type returns
\* SetCharsetFailed, the resource it had opened has been released.
C21_NoResourceLeaked ==
  /\ \A i \in DOMAIN dbs :
       dbs[i].live =>
         \/ Cardinality({t \in Threads : handle[t] = GeoIp(i)}) = 1
         \/ \E t \in Threads : pc[t] = "ot_charset" /\ loc[t].db = i
  /\ "db_deleted_twice" \notin ub
  /\ (result.op \in {"open", "open_type"} /\ result.ret.tag = "Err"
        /\ result.ret.err.kind = "SetCharsetFailed")
       => ~dbs[result.calls[Len(result.calls)].ptr].live

====
